---- MODULE Spec2Model ----
(***************************************************************************)
(* The incremental cache of the site generator: the persisted diskcache    *)
(* store, invalidate_cache, the two-tier node cache decorator, the         *)
(* dependency tracker and the write-back of the dependency graph at the    *)
(* end of a cached freeze run (gen/caching.py, gen/cli.py).                *)
(***************************************************************************)
EXTENDS Integers, FiniteSets, Sequences, TLC

(* ------------------------------ bounds -------------------------------- *)

\* Modification times are 1..MaxTime; 0 stands for "no matching file".
MaxTime == 2

\* File changes (writes and deletions) in one behaviour.
MaxTouches == 1

\* Frames on the tracker's stack in one behaviour of the tracker on its own.
MaxDepth == 2

\* Page ids of the content directory, in the order get_pages sorts them.
PageOrder == <<"a", "b", "c">>
Pages == {PageOrder[i] : i \in 1..Len(PageOrder)}

\* The endpoint contexts render_node is called with (EndpointInfo.endpoint).
Endpoints == {"main", "feed"}

(* --------------------------- program constants ------------------------ *)

\* functools.lru_cache used bare: maxsize defaults to 128.
LruMaxsize == 128

(* ------------------------------ state --------------------------------- *)

VARIABLES
    mtimeOf,        \* file system: tracked unit -> newest st_mtime (0: no file)
    cache,          \* diskcache.Cache: key -> [value, tag] (the tagged entries)
    cacheMtimes,    \* diskcache.Cache: the value under 'mtimes' (<<>>: absent)
    cacheDeps,      \* diskcache.Cache: the value under 'dependencies'
    pc,             \* position of the freeze command: idle, render, check
    pos,            \* how far the freezer's loop over the pages has come
    touches,        \* file changes so far
    memo,           \* the lru_cache of the wrappers of this process
    dependencies,   \* DependecyTracker.dependencies
    stack,          \* DependecyTracker._stack
    evicted_nodes,  \* freeze's evicted_nodes
    \* history variables (observations of the run, not program state)
    last,           \* the last wrapper call: key, how it was served, value
    run,            \* what invalidate_cache saw and did at the start of the run
    dirty,          \* a file changed since the last invalidate_cache (or none ran)
    active,         \* the intercepted main.page calls in progress, outermost first
    hook,           \* the last tracker hook: its name, argument, whether it raised
    html,           \* page id -> what its rendered HTML and its metadata hold
    report,         \* what the last run of the checkers produced
    out,            \* the output directory and the exit of the freeze command
    md,             \* the markdown state of the document being rendered
    page,           \* a page file's metadata, the Page object and its last access
    stream,         \* an open page file: its lines, position and last read
    readsOf         \* entry of the store -> the pages read while it was computed

fsVars == <<mtimeOf>>
diskVars == <<cache, cacheMtimes, cacheDeps>>
procVars == <<memo, dependencies, stack, evicted_nodes>>
trackVars == <<active, hook>>
siteVars == <<html, report, out>>
unitVars == <<md, page, stream>>
vars == <<mtimeOf, cache, cacheMtimes, cacheDeps, pc, pos, touches, memo,
          dependencies, stack, evicted_nodes, last, run, dirty, active, hook,
          html, report, out, md, page, stream, readsOf>>

(* ------------------------------ dicts --------------------------------- *)

\* dict.get(k, d)
Get(f, k, d) == IF k \in DOMAIN f THEN f[k] ELSE d

\* d[k] = v
Put(f, k, v) == [x \in DOMAIN f \cup {k} |-> IF x = k THEN v ELSE f[x]]

\* the dict restricted to the keys in S
Restrict(f, S) == [x \in DOMAIN f \cap S |-> f[x]]

\* a faulty variant of Update: the old items are lost
Update_new_only(f, g) == g

\* d.update(g)
Update(f, g) == [x \in DOMAIN f \cup DOMAIN g |-> IF x \in DOMAIN g THEN g[x] ELSE f[x]]

EmptyDict == <<>>

Max(a, b) == IF a >= b THEN a ELSE b

(* --------------------------- tracked units ---------------------------- *)

\* f'node:{id}': the snapshot key and the eviction tag of a page
NodeKey(id) == <<"node", id>>

\* 'dir:gen' and 'dir:templates'
DirGen == <<"dir", "gen">>
DirTemplates == <<"dir", "templates">>
DirKeys == {DirGen, DirTemplates}

Units == DirKeys \cup {NodeKey(id) : id \in Pages}

\* key.startswith('dir:')
StartsWithDir(key) == key[1] = "dir"

\* key.partition(':')[2]
NodeId(key) == key[2]

\* Thingie.page_exists / the ids get_page_paths yields
page_exists(id) == mtimeOf[NodeKey(id)] > 0

get_page_paths == {id \in Pages : page_exists(id)}

(* --------------------------- invalidate_cache ------------------------- *)

\* cache.get('mtimes', {})
old_mtimes == cacheMtimes

\* check_mtime: the mtime it would record for key (the stored one when no
\* matching file is newer)
check_mtime(key) == Max(Get(old_mtimes, key, 0), mtimeOf[key])

\* a faulty variant of CheckedKeys: the two directories are not checked
CheckedKeys_pages_only == {NodeKey(id) : id \in get_page_paths}

\* the units invalidate_cache checks: both directories and every page file
CheckedKeys == DirKeys \cup {NodeKey(id) : id \in get_page_paths}

\* a faulty variant of new_mtimes: >= for > in check_mtime
new_mtimes_ge ==
    LET changed == {k \in CheckedKeys : check_mtime(k) >= Get(old_mtimes, k, 0)}
    IN  [k \in changed |-> check_mtime(k)]

\* a faulty variant of new_mtimes: any difference from the stored mtime counts
new_mtimes_differs ==
    LET changed == {k \in CheckedKeys : mtimeOf[k] # Get(old_mtimes, k, 0)}
    IN  [k \in changed |-> mtimeOf[k]]

\* new_mtimes after the three rounds of check_mtime
new_mtimes ==
    LET changed == {k \in CheckedKeys : check_mtime(k) > Get(old_mtimes, k, 0)}
    IN  [k \in changed |-> check_mtime(k)]

\* invert_dependencies(dependencies)
invert_dependencies(deps) ==
    LET values == UNION {deps[k] : k \in DOMAIN deps}
    IN  [v \in values |-> {k \in DOMAIN deps : v \in deps[k]}]

\* a faulty variant of AnyDirChanged: only the generator's code counts
AnyDirChanged_gen_only == DirGen \in DOMAIN new_mtimes

\* any(key.startswith('dir:') for key in new_mtimes)
AnyDirChanged == \E k \in DOMAIN new_mtimes : StartsWithDir(k)

\* a faulty variant of to_evict: the changed keys without their dependents
to_evict_changed_only ==
    IF new_mtimes = EmptyDict \/ AnyDirChanged THEN {} ELSE DOMAIN new_mtimes

\* a faulty variant of to_evict: every page with an entry in the graph goes too
to_evict_whole_graph ==
    IF new_mtimes = EmptyDict \/ AnyDirChanged THEN {}
    ELSE DOMAIN new_mtimes \cup {NodeKey(d) : d \in DOMAIN cacheDeps}

\* a faulty variant of to_evict: only the keys that tag an entry
to_evict_stored_only ==
    IF new_mtimes = EmptyDict \/ AnyDirChanged THEN {}
    ELSE LET dependents == invert_dependencies(cacheDeps)
             all == DOMAIN new_mtimes \cup
                    UNION {{NodeKey(d) : d \in Get(dependents, NodeId(k), {})} :
                           k \in DOMAIN new_mtimes}
         IN  {t \in all : \E k \in DOMAIN cache : cache[k].tag = t}

\* a faulty variant of to_evict: the dependents of the dependents go too
to_evict_two_levels ==
    IF new_mtimes = EmptyDict \/ AnyDirChanged THEN {}
    ELSE LET dependents == invert_dependencies(cacheDeps)
             one == DOMAIN new_mtimes \cup
                    UNION {{NodeKey(d) : d \in Get(dependents, NodeId(k), {})} :
                           k \in DOMAIN new_mtimes}
         IN  one \cup
             UNION {{NodeKey(d) : d \in Get(dependents, NodeId(k), {})} :
                    k \in one}

\* a faulty variant of to_evict: the keys of pages whose file is gone go too
to_evict_missing_too ==
    IF AnyDirChanged THEN {}
    ELSE LET dependents == invert_dependencies(cacheDeps)
             gone == {k \in DOMAIN old_mtimes :
                         ~StartsWithDir(k) /\ ~page_exists(NodeId(k))}
         IN  DOMAIN new_mtimes \cup gone \cup
             UNION {{NodeKey(d) : d \in Get(dependents, NodeId(k), {})} :
                    k \in DOMAIN new_mtimes \cup gone}

\* to_evict in the page branch: the changed keys and their direct dependents
to_evict ==
    IF new_mtimes = EmptyDict \/ AnyDirChanged THEN {}
    ELSE LET dependents == invert_dependencies(cacheDeps)
         IN  DOMAIN new_mtimes \cup
             UNION {{NodeKey(d) : d \in Get(dependents, NodeId(k), {})} :
                    k \in DOMAIN new_mtimes}

\* the page ids some entry of the store is tagged with
Tagged(c) == {NodeId(c[k].tag) : k \in DOMAIN c}

\* a faulty variant of Evict: the endpoint is part of the tag, and only the
\* entries of the page endpoint (and of the functions without one) go
Evict_page_endpoint(c, tags) ==
    Restrict(c, {k \in DOMAIN c : c[k].tag \notin tags \/ k.args = <<"feed">>})

\* cache.evict(tag) for every tag in tags
Evict(c, tags) == Restrict(c, {k \in DOMAIN c : c[k].tag \notin tags})

\* a faulty variant of invalidate_cache: the clear spares the graph
invalidate_cache_keeps_graph ==
    LET cleared == new_mtimes # EmptyDict /\ AnyDirChanged
        mtimes  == Update(old_mtimes, new_mtimes)
    IN  [cache    |-> IF cleared THEN EmptyDict ELSE Evict(cache, to_evict),
         deps     |-> cacheDeps,
         mtimes   |-> IF new_mtimes # EmptyDict THEN mtimes ELSE cacheMtimes,
         cleared  |-> cleared,
         changed  |-> DOMAIN new_mtimes,
         rv       |-> {NodeId(k) : k \in to_evict}]

\* The persisted store after invalidate_cache, and what it returns.
invalidate_cache ==
    LET cleared == new_mtimes # EmptyDict /\ AnyDirChanged
        mtimes  == Update(old_mtimes, new_mtimes)
    IN  [cache    |-> IF cleared THEN EmptyDict ELSE Evict(cache, to_evict),
         deps     |-> IF cleared THEN EmptyDict ELSE cacheDeps,
         mtimes   |-> IF new_mtimes # EmptyDict THEN mtimes ELSE cacheMtimes,
         cleared  |-> cleared,
         changed  |-> DOMAIN new_mtimes,
         rv       |-> {NodeId(k) : k \in to_evict}]

(* --------------------------- the node cache --------------------------- *)

Fns == {"render_node", "get_page_metadata"}

\* the extra positional arguments each cached function is called with
ArgsOf(fn) == IF fn = "render_node" THEN {<<e>> : e \in Endpoints} ELSE {<<>>}

\* (f'{fn.__module__}.{fn.__qualname__}', id) + args
Key(fn, id, args) == [fn |-> fn, id |-> id, args |-> args]

Keys == UNION {{Key(fn, id, args) : id \in Pages, args \in ArgsOf(fn)} : fn \in Fns}

\* The wrapped function: the content version of the page file it reads.
Compute(k) == mtimeOf[NodeKey(k.id)]

\* The pages the wrapped function fetches through storage.get_page
Fetches(k) == IF k.fn = "render_node" THEN {k.id} ELSE {}

\* lru_cache's store of a new result (nothing is dropped below maxsize)
MemoPut(m, k, v) ==
    IF Cardinality(DOMAIN m) < LruMaxsize THEN Put(m, k, v)
    ELSE LET drop == CHOOSE x \in DOMAIN m : TRUE
         IN  Put(Restrict(m, DOMAIN m \ {drop}), k, v)

\* a faulty variant of wrapper: the persisted store is never read
wrapper_no_get(m, c, k) ==
    IF k \in DOMAIN m
    THEN [how |-> "memo", rv |-> m[k], gets |-> 0, calls |-> 0,
          memo |-> m, cache |-> c, fetched |-> {}]
    ELSE IF ~page_exists(k.id)
    THEN [how |-> "raised", rv |-> 0, gets |-> 0, calls |-> 1,
          memo |-> m, cache |-> c, fetched |-> {}]
    ELSE [how |-> "computed", rv |-> Compute(k), gets |-> 0, calls |-> 1,
          memo |-> MemoPut(m, k, Compute(k)),
          cache |-> Put(c, k, [value |-> Compute(k), tag |-> NodeKey(k.id)]),
          fetched |-> Fetches(k)]

\* a faulty variant of wrapper: a failure is remembered as a result
wrapper_caches_failure(m, c, k) ==
    IF k \in DOMAIN m
    THEN [how |-> "memo", rv |-> m[k], gets |-> 0, calls |-> 0,
          memo |-> m, cache |-> c, fetched |-> {}]
    ELSE IF k \in DOMAIN c
    THEN [how |-> "disk", rv |-> c[k].value, gets |-> 1, calls |-> 0,
          memo |-> MemoPut(m, k, c[k].value), cache |-> c, fetched |-> {}]
    ELSE IF ~page_exists(k.id)
    THEN [how |-> "raised", rv |-> 0, gets |-> 1, calls |-> 1,
          memo |-> MemoPut(m, k, 0), cache |-> c, fetched |-> {}]
    ELSE [how |-> "computed", rv |-> Compute(k), gets |-> 1, calls |-> 1,
          memo |-> MemoPut(m, k, Compute(k)),
          cache |-> Put(c, k, [value |-> Compute(k), tag |-> NodeKey(k.id)]),
          fetched |-> Fetches(k)]

\* a faulty variant of wrapper: lru_cache sits below the persisted store, so
\* a persisted hit does not reach it
wrapper_no_memo_on_hit(m, c, k) ==
    IF k \in DOMAIN m
    THEN [how |-> "memo", rv |-> m[k], gets |-> 0, calls |-> 0,
          memo |-> m, cache |-> c, fetched |-> {}]
    ELSE IF k \in DOMAIN c
    THEN [how |-> "disk", rv |-> c[k].value, gets |-> 1, calls |-> 0,
          memo |-> m, cache |-> c, fetched |-> {}]
    ELSE IF ~page_exists(k.id)
    THEN [how |-> "raised", rv |-> 0, gets |-> 1, calls |-> 1,
          memo |-> m, cache |-> c, fetched |-> {}]
    ELSE [how |-> "computed", rv |-> Compute(k), gets |-> 1, calls |-> 1,
          memo |-> MemoPut(m, k, Compute(k)),
          cache |-> Put(c, k, [value |-> Compute(k), tag |-> NodeKey(k.id)]),
          fetched |-> Fetches(k)]

\* a faulty variant of wrapper: the entry is tagged with the function, not
\* with the page
wrapper_tag_fn(m, c, k) ==
    IF k \in DOMAIN m
    THEN [how |-> "memo", rv |-> m[k], gets |-> 0, calls |-> 0,
          memo |-> m, cache |-> c, fetched |-> {}]
    ELSE IF k \in DOMAIN c
    THEN [how |-> "disk", rv |-> c[k].value, gets |-> 1, calls |-> 0,
          memo |-> MemoPut(m, k, c[k].value), cache |-> c, fetched |-> {}]
    ELSE IF ~page_exists(k.id)
    THEN [how |-> "raised", rv |-> 0, gets |-> 1, calls |-> 1,
          memo |-> m, cache |-> c, fetched |-> {}]
    ELSE [how |-> "computed", rv |-> Compute(k), gets |-> 1, calls |-> 1,
          memo |-> MemoPut(m, k, Compute(k)),
          cache |-> Put(c, k, [value |-> Compute(k), tag |-> <<"node", k.fn>>]),
          fetched |-> Fetches(k)]

\* One call of a wrapper made by node_cache_decorator, with the lru_cache
\* holding m and the persisted store holding c: how the call was served, what
\* it returns (0 when it raises), how often it read the store (gets) and
\* invoked the wrapped function (calls), both stores afterwards, and the
\* pages the wrapped function fetched.
wrapper(m, c, k) ==
    IF k \in DOMAIN m
    THEN [how |-> "memo", rv |-> m[k], gets |-> 0, calls |-> 0,
          memo |-> m, cache |-> c, fetched |-> {}]
    ELSE IF k \in DOMAIN c
    THEN [how |-> "disk", rv |-> c[k].value, gets |-> 1, calls |-> 0,
          memo |-> MemoPut(m, k, c[k].value), cache |-> c, fetched |-> {}]
    ELSE IF ~page_exists(k.id)
    THEN [how |-> "raised", rv |-> 0, gets |-> 1, calls |-> 1,
          memo |-> m, cache |-> c, fetched |-> {}]
    ELSE [how |-> "computed", rv |-> Compute(k), gets |-> 1, calls |-> 1,
          memo |-> MemoPut(m, k, Compute(k)),
          cache |-> Put(c, k, [value |-> Compute(k), tag |-> NodeKey(k.id)]),
          fetched |-> Fetches(k)]

\* what the history variable last keeps of a call
CallRecord(k, w) == [key |-> k, how |-> w.how, rv |-> w.rv, gets |-> w.gets,
                     calls |-> w.calls]

(* ------------------------- dependency tracker ------------------------- *)

\* a faulty variant of Observe: the outermost frame is credited
Observe_outermost(deps, stk, ids) ==
    IF stk = <<>> THEN deps
    ELSE Put(deps, stk[1], Get(deps, stk[1], {}) \cup ids)

\* a faulty variant of Observe: without the early return on an empty stack,
\* the fetched pages are recorded under a frame of their own
Observe_unguarded(deps, stk, ids) ==
    LET top == IF stk = <<>> THEN "" ELSE stk[Len(stk)]
    IN  Put(deps, top, Get(deps, top, {}) \cup ids)

\* a faulty variant of Observe: a page's fetch of itself is not an edge
Observe_no_self(deps, stk, ids) ==
    IF stk = <<>> THEN deps
    ELSE LET top == stk[Len(stk)]
         IN  Put(deps, top, Get(deps, top, {}) \cup (ids \ {top}))

\* DependecyTracker.pages (and .page, for one page) with the stack given
Observe(deps, stk, ids) ==
    IF stk = <<>> THEN deps
    ELSE LET top == stk[Len(stk)]
         IN  Put(deps, top, Get(deps, top, {}) \cup ids)

(* ------------------------------ actions ------------------------------- *)

NoCall == [key |-> Key("get_page_metadata", PageOrder[1], <<>>), how |-> "none",
           rv |-> 0, gets |-> 0, calls |-> 0]
NoRun == [cleared |-> FALSE, changed |-> {}, depsBefore |-> EmptyDict,
          stored |-> {}, quiet |-> FALSE]
NoHook == [name |-> "none", ids |-> {}, error |-> FALSE]
NoPage == [links |-> {}, ids |-> {}, names |-> {}, hidden |-> FALSE,
           discoverable |-> TRUE]
NoReport == [kind |-> "none", value |-> EmptyDict]
NoDocument == [toc_headings |-> <<>>, tokens |-> <<>>, raised |-> "none"]
NoPageFile == [tags |-> [type |-> "absent", truthy |-> FALSE, items |-> <<>>],
               hidden |-> FALSE, got |-> "none", attr |-> "none",
               raised |-> "none"]
NoStream == [lines |-> <<>>, pos |-> 0, entry |-> 0, yielded |-> <<>>,
             status |-> "unread"]
NoOutput == [step |-> "none", frozen |-> {}, nojekyll |-> FALSE,
             cname |-> FALSE, deployed |-> FALSE, exit |-> 0, printed |-> EmptyDict]

Init ==
    /\ mtimeOf = [u \in Units |-> 1]
    /\ cache = EmptyDict
    /\ cacheMtimes = EmptyDict
    /\ cacheDeps = EmptyDict
    /\ pc = "idle"
    /\ pos = 0
    /\ touches = 0
    /\ memo = EmptyDict
    /\ dependencies = EmptyDict
    /\ stack = <<>>
    /\ evicted_nodes = {}
    /\ last = NoCall
    /\ run = NoRun
    /\ dirty = TRUE
    /\ active = <<>>
    /\ hook = NoHook
    /\ html = [id \in Pages |-> NoPage]
    /\ report = NoReport
    /\ out = NoOutput
    /\ md = NoDocument
    /\ page = NoPageFile
    /\ stream = NoStream
    /\ readsOf = EmptyDict

\* A file of unit u gets mtime t between runs (written, created, or touched).
Touch(u, t) ==
    /\ pc = "idle"
    /\ touches < MaxTouches
    /\ t # mtimeOf[u]
    /\ mtimeOf' = [mtimeOf EXCEPT ![u] = t]
    /\ touches' = touches + 1
    /\ dirty' = TRUE
    /\ UNCHANGED <<diskVars, procVars, pc, pos, last, run, trackVars, siteVars,
                   unitVars, readsOf>>

\* A page file is deleted between runs.
DeletePage(id) ==
    /\ pc = "idle"
    /\ touches < MaxTouches
    /\ page_exists(id)
    /\ mtimeOf' = [mtimeOf EXCEPT ![NodeKey(id)] = 0]
    /\ touches' = touches + 1
    /\ dirty' = TRUE
    /\ UNCHANGED <<diskVars, procVars, pc, pos, last, run, trackVars, siteVars,
                   unitVars, readsOf>>

\* freeze --cache up to create_app: invalidate_cache on the persisted store,
\* then a new app with empty wrappers' memos and an empty tracker.
StartRun ==
    /\ pc = "idle"
    /\ LET r == invalidate_cache
       IN  /\ cache' = r.cache
           /\ cacheDeps' = r.deps
           /\ cacheMtimes' = r.mtimes
           /\ evicted_nodes' = r.rv
           /\ run' = [cleared |-> r.cleared, changed |-> r.changed,
                      depsBefore |-> IF r.cleared THEN EmptyDict ELSE cacheDeps,
                      stored |-> Tagged(cache), quiet |-> ~dirty]
    /\ memo' = EmptyDict
    /\ dependencies' = EmptyDict
    /\ stack' = <<>>
    /\ pc' = "render"
    /\ pos' = 0
    /\ last' = NoCall
    /\ dirty' = FALSE
    /\ UNCHANGED <<mtimeOf, touches, trackVars, siteVars, unitVars, readsOf>>

\* The pages the freezer still has to request, by index in PageOrder.
Remaining == {i \in (pos + 1)..Len(PageOrder) : page_exists(PageOrder[i])}

\* The page after id in the order of the content directory, cyclically.
Succ(id) ==
    LET i == CHOOSE j \in 1..Len(PageOrder) : PageOrder[j] = id
    IN  PageOrder[(i % Len(PageOrder)) + 1]

\* What the markdown of page id may fetch besides the page while render_node
\* computes it: nothing, the next page, or every other page.
ReadChoices(id) ==
    {{}, {Succ(id)} \cap get_page_paths, get_page_paths \ {id}}

\* A request for a page: the intercepted main.page view runs
\* start_node, its own get_page(id), the template's get_page_metadata(id) and
\* render_node(id, main) through their wrappers, and end_node. When
\* render_node is computed, its markdown fetches the pages in reads.
ViewOf(id, reads) ==
    LET inside == Append(stack, id)
        w1 == wrapper(memo, cache, Key("get_page_metadata", id, <<>>))
        w2 == wrapper(w1.memo, w1.cache, Key("render_node", id, <<"main">>))
    IN  /\ reads \in (IF w2.how = "computed" THEN ReadChoices(id) ELSE {{}})
        /\ memo' = w2.memo
        /\ cache' = w2.cache
        /\ dependencies' =
               Observe(dependencies, inside, {id} \cup w2.fetched \cup reads)
        /\ stack' = SubSeq(inside, 1, Len(inside) - 1)
        /\ last' = CallRecord(Key("render_node", id, <<"main">>), w2)

View(reads) ==
    /\ pc = "render"
    /\ Remaining # {}
    /\ LET i == CHOOSE j \in Remaining : \A l \in Remaining : j <= l
       IN  ViewOf(PageOrder[i], reads) /\ pos' = i
    /\ UNCHANGED <<mtimeOf, cacheMtimes, cacheDeps, pc, touches, evicted_nodes,
                   run, dirty, trackVars, siteVars, unitVars, readsOf>>

\* A cached function is called outside any page view (a url generator of the
\* freezer, the feed view, a checker): the tracker's stack is empty.
Call(k) ==
    /\ pc = "render"
    /\ LET w == wrapper(memo, cache, k)
       IN  /\ memo' = w.memo
           /\ cache' = w.cache
           /\ dependencies' = Observe(dependencies, stack, w.fetched)
           /\ last' = CallRecord(k, w)
    /\ UNCHANGED <<mtimeOf, cacheMtimes, cacheDeps, pc, pos, touches, stack,
                   evicted_nodes, run, dirty, trackVars, siteVars, unitVars,
                   readsOf>>

\* a faulty variant of write_back: the evicted ids keep their old entries
write_back_keep_old(deps, evicted, new_dependencies) ==
    [id \in DOMAIN deps \cup DOMAIN new_dependencies |->
        IF id \in DOMAIN deps THEN deps[id] ELSE new_dependencies[id]]

\* a faulty variant of write_back: dict.update for dict.setdefault
write_back_update(deps, evicted, new_dependencies) ==
    LET kept == Restrict(deps, DOMAIN deps \ evicted)
    IN  Update(kept, new_dependencies)

\* freeze's reconciliation of the persisted graph: the entries of the
\* evicted ids are dropped, then every id the tracker saw gets its new set
\* unless it still has an entry (dict.setdefault).
write_back(deps, evicted, new_dependencies) ==
    LET kept == Restrict(deps, DOMAIN deps \ evicted)
    IN  [id \in DOMAIN kept \cup DOMAIN new_dependencies |->
            IF id \in DOMAIN kept THEN kept[id] ELSE new_dependencies[id]]

\* The write-back of the dependency graph once freeze_yield is exhausted.
WriteBack ==
    /\ pc = "render"
    /\ Remaining = {}
    /\ cacheDeps' = write_back(cacheDeps, evicted_nodes, dependencies)
    /\ pc' = "check"
    /\ UNCHANGED <<mtimeOf, cache, cacheMtimes, pos, touches, procVars, last,
                   run, dirty, trackVars, siteVars, unitVars, readsOf>>

\* The process ends: its memos, its tracker and evicted_nodes are gone.
ProcessGone ==
    /\ pc' = "idle"
    /\ pos' = 0
    /\ memo' = EmptyDict
    /\ dependencies' = EmptyDict
    /\ stack' = <<>>
    /\ evicted_nodes' = {}
    /\ last' = NoCall
    /\ run' = NoRun
    /\ UNCHANGED <<mtimeOf, diskVars, touches, dirty, trackVars, siteVars, unitVars,
                   readsOf>>

\* The command ends after the checks (with or without check errors).
EndRun == pc = "check" /\ ProcessGone

\* Rendering raises: the command ends before the write-back.
Abort == pc = "render" /\ ProcessGone

Next ==
    \/ \E u \in Units, t \in 1..MaxTime : Touch(u, t)
    \/ \E id \in Pages : DeletePage(id)
    \/ StartRun
    \/ \E reads \in SUBSET Pages : View(reads)
    \/ WriteBack
    \/ EndRun
    \/ Abort

Spec == Init /\ [][Next]_vars

(* ------------------- the cached wrappers on their own ------------------ *)

\* A site as Init's, or one whose last page has no backing file.
InitWrap ==
    /\ mtimeOf \in {[u \in Units |-> 1],
                    [u \in Units |-> IF u = NodeKey(PageOrder[Len(PageOrder)])
                                     THEN 0 ELSE 1]}
    /\ cache = EmptyDict
    /\ cacheMtimes = EmptyDict
    /\ cacheDeps = EmptyDict
    /\ pc = "idle"
    /\ pos = 0
    /\ touches = 0
    /\ memo = EmptyDict
    /\ dependencies = EmptyDict
    /\ stack = <<>>
    /\ evicted_nodes = {}
    /\ last = NoCall
    /\ run = NoRun
    /\ dirty = TRUE
    /\ active = <<>>
    /\ hook = NoHook
    /\ html = [id \in Pages |-> NoPage]
    /\ report = NoReport
    /\ out = NoOutput
    /\ md = NoDocument
    /\ page = NoPageFile
    /\ stream = NoStream
    /\ readsOf = EmptyDict

\* The keys called: every cached function and argument, for the first page
\* and for the last one (the one that may have no file).
CallKeys == {k \in Keys : k.id \in {PageOrder[1], PageOrder[Len(PageOrder)]}}

NextWrap ==
    \/ DeletePage(PageOrder[Len(PageOrder)])
    \/ \E t \in 1..MaxTime : Touch(NodeKey(PageOrder[1]), t)
    \/ StartRun
    \/ \E k \in CallKeys : Call(k)
    \/ Abort

SpecWrap == InitWrap /\ [][NextWrap]_vars

(* ----------------------- the tracker on its own ----------------------- *)

\* a faulty variant of start_node: nothing is pushed
start_node_no_push(stk, id) == stk

\* DependecyTracker.start_node: self._stack.append(id)
start_node(stk, id) == Append(stk, id)

\* DependecyTracker.end_node: self._stack.pop(), an IndexError on an empty list
end_node(stk) ==
    IF stk = <<>> THEN [stack |-> stk, error |-> TRUE]
    ELSE [stack |-> SubSeq(stk, 1, Len(stk) - 1), error |-> FALSE]

\* What get_pages may return: no page (nothing passes its filters) or every
\* page.
PagesChoices == {{}, get_page_paths}

\* The intercepted main.page view is called for id: intercept runs
\* on_called (start_node) and then the view.
Enter(id) ==
    /\ Len(stack) < MaxDepth
    /\ stack' = start_node(stack, id)
    /\ active' = Append(active, [id |-> id, before |-> stack])
    /\ hook' = [name |-> "start_node", ids |-> {id}, error |-> FALSE]
    /\ UNCHANGED <<fsVars, diskVars, pc, pos, touches, memo, dependencies,
                   evicted_nodes, last, run, dirty, siteVars, unitVars,
                   readsOf>>

\* The innermost view in progress returns: intercept runs on_return
\* (end_node) and returns the view's value.
Return ==
    /\ active # <<>>
    /\ LET r == end_node(stack)
       IN  /\ stack' = r.stack
           /\ hook' = [name |-> "end_node", ids |-> {active[Len(active)].id},
                       error |-> r.error]
    /\ active' = SubSeq(active, 1, Len(active) - 1)
    /\ UNCHANGED <<fsVars, diskVars, pc, pos, touches, memo, dependencies,
                   evicted_nodes, last, run, dirty, siteVars, unitVars,
                   readsOf>>

\* The innermost view in progress raises (abort(404), a template error):
\* intercept has no try/finally, on_return is not run.
Raise ==
    /\ active # <<>>
    /\ active' = SubSeq(active, 1, Len(active) - 1)
    /\ UNCHANGED <<fsVars, diskVars, pc, pos, touches, procVars, last, run,
                   dirty, hook, siteVars, unitVars, readsOf>>

\* The intercepted storage.get_page(id) returns a page: on_return is
\* DependecyTracker.page.
GetPage(id) ==
    /\ page_exists(id)
    /\ dependencies' = Observe(dependencies, stack, {id})
    /\ hook' = [name |-> "page", ids |-> {id}, error |-> FALSE]
    /\ UNCHANGED <<fsVars, diskVars, pc, pos, touches, memo, stack,
                   evicted_nodes, last, run, dirty, active, siteVars,
                   unitVars, readsOf>>

\* The intercepted storage.get_pages(...) returns pages: on_return is
\* DependecyTracker.pages.
GetPages(ids) ==
    /\ ids \in PagesChoices
    /\ dependencies' = Observe(dependencies, stack, ids)
    /\ hook' = [name |-> "pages", ids |-> ids, error |-> FALSE]
    /\ UNCHANGED <<fsVars, diskVars, pc, pos, touches, memo, stack,
                   evicted_nodes, last, run, dirty, active, siteVars,
                   unitVars, readsOf>>

\* The pages whose view is requested while the tracker is on its own.
Requested == {PageOrder[1], PageOrder[2]}

\* The app as init_node_state leaves it: an empty tracker, nothing called.
InitTracker == Init

NextTracker ==
    \/ \E id \in Requested : Enter(id)
    \/ Return
    \/ Raise
    \/ \E id \in Pages : GetPage(id)
    \/ \E ids \in SUBSET Pages : GetPages(ids)

SpecTracker == InitTracker /\ [][NextTracker]_vars

(* ---------------------- the claims: invalidation ----------------------- *)

\* the steps of the freeze command, told by the program counter
IsStartRun == pc = "idle" /\ pc' = "render"
IsView == pc = "render" /\ pc' = "render" /\ pos' # pos
IsCall == pc = "render" /\ pc' = "render" /\ pos' = pos
IsWriteBack == pc = "render" /\ pc' = "check"

\* what the claims call changed, read off the files and the stored snapshot
Newer(u) == mtimeOf[u] > Get(cacheMtimes, u, 0)
ChangedPages == {id \in Pages : page_exists(id) /\ Newer(NodeKey(id))}
DirChanged == \E d \in DirKeys : Newer(d)
DependentsOf(ids) == {y \in DOMAIN cacheDeps : cacheDeps[y] \cap ids # {}}

\* C1: when no dir: unit changed, after invalidate_cache no entry of the
\* persisted cache is tagged with a page whose file is newer than the
\* snapshot, nor with a page whose persisted dependency set contains one.
C1_ChangedAndDependentsEvicted ==
    [][IsStartRun /\ ~DirChanged =>
         \A k \in DOMAIN cache' :
            NodeId(cache'[k].tag) \notin
                ChangedPages \cup DependentsOf(ChangedPages)]_vars

\* C1's case: a run that evicted a changed page and a dependent of it that
\* did not change itself, both with entries in the cache.
C1_Witness ==
    /\ pc = "render" /\ pos = 0 /\ ~run.cleared
    /\ \E x \in run.stored, y \in run.stored :
          /\ NodeKey(x) \in run.changed
          /\ NodeKey(y) \notin run.changed
          /\ x \in Get(run.depsBefore, y, {})
          /\ {x, y} \subseteq evicted_nodes
          /\ {x, y} \cap Tagged(cache) = {}

\* C2: when only page files changed, every cache entry of a page that did
\* not change and whose persisted dependency set contains no changed page
\* is still in the persisted cache after invalidate_cache, value unchanged.
C2_UnrelatedEntriesKept ==
    [][IsStartRun /\ ~DirChanged =>
         \A k \in DOMAIN cache :
            LET c == NodeId(cache[k].tag)
            IN  (c \notin ChangedPages /\
                 Get(cacheDeps, c, {}) \cap ChangedPages = {})
                => k \in DOMAIN cache' /\ cache'[k] = cache[k]]_vars

\* C2's case: only b changed, a depends on b and was evicted with it, and the
\* entries of the unrelated c are still there.
C2_Witness ==
    /\ pc = "render" /\ pos = 0 /\ ~run.cleared
    /\ run.changed = {NodeKey("b")}
    /\ "b" \in Get(run.depsBefore, "a", {})
    /\ evicted_nodes = {"a", "b"}
    /\ "c" \in run.stored
    /\ Tagged(cache) = {"c"}

\* C3: if a dir: unit is newer than the snapshot, invalidate_cache leaves no
\* entry of any page in the persisted cache.
C3_GlobalClear ==
    [][IsStartRun /\ DirChanged => cache' = EmptyDict]_vars

\* C3's case: only the template directory changed, no page did, and the
\* cache held entries of every page before the call.
C3_Witness ==
    /\ pc = "render" /\ pos = 0 /\ run.cleared
    /\ run.changed = {DirTemplates}
    /\ run.stored = Pages
    /\ cache = EmptyDict

\* C4: invalidate_cache called again with no file change since the call
\* before it removes no entry, returns the empty set and leaves the snapshot
\* (and the graph) as that call left them.
C4_SecondCallEvictsNothing ==
    [][IsStartRun /\ ~dirty =>
         /\ cache' = cache
         /\ evicted_nodes' = {}
         /\ cacheMtimes' = cacheMtimes
         /\ cacheDeps' = cacheDeps]_vars

\* C4's case: a second call with nothing changed, on a cache that holds
\* entries and on a snapshot the first call wrote.
C4_Witness ==
    /\ pc = "render" /\ pos = 0 /\ run.quiet
    /\ cache # EmptyDict
    /\ cacheMtimes # EmptyDict

(* ----------------- the claims: the graph's write-back ------------------ *)

\* C5: if the persisted dependency set of page A held a page whose file
\* changed, and A is rendered again in the run, then after the write-back
\* the persisted graph's entry of A is exactly the set the tracker observed
\* for A in this run.
C5_ReplacedNotMerged ==
    [][IsWriteBack =>
         \A A \in DOMAIN dependencies \cap DOMAIN run.depsBefore :
            (\E B \in run.depsBefore[A] : NodeKey(B) \in run.changed)
            => cacheDeps'[A] = dependencies[A]]_vars

\* C5's case: A depended on B and C, B changed, A was rendered again without
\* reading either, and the graph has been written back.
C5_Witness ==
    /\ pc = "check" /\ ~run.cleared
    /\ \E A \in DOMAIN run.depsBefore, B \in Pages, C \in Pages :
          /\ A # B /\ A # C /\ B # C
          /\ {B, C} \subseteq run.depsBefore[A]
          /\ NodeKey(B) \in run.changed
          /\ A \in DOMAIN dependencies
          /\ dependencies[A] \cap {B, C} = {}
          /\ cacheDeps[A] = dependencies[A]

\* C6: the write-back leaves the entry of every page that is not in the
\* evicted set and has an entry in the persisted graph it loads as it was
\* before the run, whatever the tracker observed for that page.
C6_KeptEntriesUntouched ==
    [][IsWriteBack =>
         \A p \in DOMAIN cacheDeps \ evicted_nodes :
            /\ p \in DOMAIN run.depsBefore
            /\ cacheDeps'[p] = run.depsBefore[p]]_vars

\* C6's case: the tracker observed, for a page that was not evicted, a set
\* other than its entry, and the entry is the same after the write-back.
C6_Witness ==
    /\ pc = "check" /\ ~run.cleared /\ evicted_nodes # {}
    /\ \E p \in DOMAIN run.depsBefore \ evicted_nodes :
          /\ p \in DOMAIN dependencies
          /\ dependencies[p] # run.depsBefore[p]
          /\ cacheDeps[p] = run.depsBefore[p]

(* --------------------- the claims: cached wrappers --------------------- *)

\* render_node's call of a page view served from what an earlier run stored
Unchanged(P) == P \in run.stored /\ NodeKey(P) \notin run.changed

\* C7 as the specification states it: render_node for a page that has not
\* changed since the last run, and that a run stored, does not invoke the
\* wrapped function.
C7_Original ==
    [][IsView => (Unchanged(last'.key.id) => last'.calls = 0)]_vars

\* C7: render_node for a page P that has not changed since the last run,
\* when no dir: unit changed and no page of P's persisted dependency set
\* changed either, and a run stored its result, returns the value in the
\* persisted store without invoking the wrapped function.
C7_UnchangedServedFromStore ==
    [][IsView =>
         LET P == last'.key.id
         IN  (/\ Unchanged(P)
              /\ ~run.cleared
              /\ \A B \in Get(run.depsBefore, P, {}) :
                    NodeKey(B) \notin run.changed)
             => /\ last'.calls = 0
                /\ last'.key \in DOMAIN cache
                /\ last'.rv = cache[last'.key].value
                /\ cache' = cache]_vars

\* C7's case: in a run that evicted other pages, the view of an unchanged
\* page is served from the persisted store.
C7_Witness ==
    /\ pc = "render" /\ pos > 0 /\ ~run.cleared /\ evicted_nodes # {}
    /\ last.how = "disk" /\ last.calls = 0
    /\ Unchanged(last.key.id)
    /\ last.key.id \notin evicted_nodes

\* the call with key k would invoke the wrapped function and raise
Raises(k) == wrapper(memo, cache, k).how = "raised"

\* C8: a call whose wrapped function raises for a page without a file
\* invokes it once and stores nothing in the memo or the persisted store;
\* until the process ends every call that would raise still would, so each
\* later call with the same arguments invokes the function and raises again.
C8_NotFoundNeverCached ==
    [][IsCall =>
         /\ last'.how = "raised" =>
               /\ ~page_exists(last'.key.id)
               /\ last'.calls = 1
               /\ memo' = memo /\ cache' = cache
               /\ wrapper(memo', cache', last'.key).how = "raised"
         /\ \A k \in Keys : Raises(k) => Raises(k)'
         /\ (last.how = "raised" /\ last'.key = last.key) =>
               last'.how = "raised" /\ last'.calls = 1]_vars

\* C8's case: a call raised in a process whose memo and persisted store
\* hold results of other calls, and neither holds anything under its key.
C8_Witness ==
    /\ pc = "render"
    /\ last.how = "raised" /\ last.calls = 1
    /\ ~page_exists(last.key.id)
    /\ memo # EmptyDict /\ cache # EmptyDict
    /\ last.key \notin DOMAIN memo /\ last.key \notin DOMAIN cache

\* C9: a call whose key is in the memo does not read the persisted store; a
\* call that misses the memo and hits the persisted store returns the value
\* stored there without invoking the wrapped function and puts it in the
\* memo, so that the same call made next does not read the persisted store.
C9_TwoTierLookup ==
    [][IsCall =>
         /\ last'.key \in DOMAIN memo =>
               /\ last'.how = "memo" /\ last'.gets = 0 /\ last'.calls = 0
               /\ last'.rv = memo[last'.key]
         /\ (last'.key \notin DOMAIN memo /\ last'.key \in DOMAIN cache) =>
               /\ last'.how = "disk" /\ last'.calls = 0
               /\ last'.rv = cache[last'.key].value
               /\ last'.key \in DOMAIN memo'
               /\ memo'[last'.key] = last'.rv
               /\ wrapper(memo', cache', last'.key).gets = 0
         /\ (last.how = "disk" /\ last'.key = last.key) => last'.gets = 0]_vars

\* C9's case: a call served from the persisted store, its value now in the
\* memo.
C9_Witness ==
    /\ pc = "render"
    /\ last.how = "disk" /\ last.gets = 1 /\ last.calls = 0
    /\ last.key \in DOMAIN memo
    /\ memo[last.key] = last.rv

\* C10: a call that misses both the memo and the persisted store invokes the
\* wrapped function exactly once; when that returns, the result is stored
\* in the persisted store under (function, id, args) with tag node:<id>,
\* and only there, stored in the memo, and returned.
C10_MissComputesAndStores ==
    [][(/\ IsCall
         /\ last'.key \notin DOMAIN memo
         /\ last'.key \notin DOMAIN cache) =>
            /\ last'.calls = 1
            /\ last'.how = "computed" =>
                  /\ last'.rv = Compute(last'.key)
                  /\ cache' = Put(cache, last'.key,
                                  [value |-> last'.rv,
                                   tag |-> NodeKey(last'.key.id)])
                  /\ last'.key \in DOMAIN memo'
                  /\ memo'[last'.key] = last'.rv]_vars

\* C10's case: render_node(id, feed) was computed and stored while
\* render_node(id, main) was not.
C10_Witness ==
    /\ pc = "render"
    /\ last.how = "computed" /\ last.calls = 1
    /\ last.key.fn = "render_node" /\ last.key.args = <<"feed">>
    /\ last.key \in DOMAIN cache
    /\ cache[last.key] = [value |-> last.rv, tag |-> NodeKey(last.key.id)]
    /\ Key("render_node", last.key.id, <<"main">>) \notin DOMAIN cache
    /\ memo[last.key] = last.rv

(* ------------------------ the claims: the tracker ---------------------- *)

\* C11 as the specification states it: whenever a wrapper computes a value
\* whose computation fetches pages, the page id it computes for is the
\* innermost frame of the tracker and the fetched pages are recorded in its
\* dependency set.
C11_Original ==
    [][(IsCall /\ last'.how = "computed" /\ Fetches(last'.key) # {}) =>
         /\ stack # <<>>
         /\ stack[Len(stack)] = last'.key.id
         /\ last'.key.id \in DOMAIN dependencies'
         /\ Fetches(last'.key) \subseteq dependencies'[last'.key.id]]_vars

\* a step in which get_page or get_pages returned and its hook ran
IsFetch == hook' # hook /\ hook'.name \in {"page", "pages"}

\* the innermost frame of the tracker
Top == stack[Len(stack)]

\* C12: with two or more frames on the stack, a fetch adds the fetched ids to
\* the dependency set of the innermost frame only; the set of every other
\* page, the outer frames' included, is as before.
C12_InnermostCredited ==
    [][(IsFetch /\ Len(stack) >= 2) =>
         /\ Top \in DOMAIN dependencies'
         /\ dependencies'[Top] = Get(dependencies, Top, {}) \cup hook'.ids
         /\ DOMAIN dependencies' = DOMAIN dependencies \cup {Top}
         /\ \A p \in DOMAIN dependencies \ {Top} :
               dependencies'[p] = dependencies[p]]_vars

\* C12's case: with the view of b running inside the view of a, c was
\* fetched: it is in b's set and not in a's.
C12_Witness ==
    /\ stack = <<"a", "b">>
    /\ hook.name = "page" /\ hook.ids = {"c"}
    /\ "a" \in DOMAIN dependencies /\ "b" \in DOMAIN dependencies
    /\ "c" \in dependencies["b"]
    /\ "c" \notin dependencies["a"]

\* C13: with an empty stack, a fetch leaves the tracker's dependencies and
\* its stack as they were.
C13_EmptyStackNoOp ==
    [][(IsFetch /\ stack = <<>>) =>
         dependencies' = dependencies /\ stack' = stack]_vars

\* C13's case: get_pages returned every page outside any view, after a view
\* had recorded something, and the tracker holds what it held.
C13_Witness ==
    /\ stack = <<>> /\ active = <<>>
    /\ hook.name = "pages" /\ hook.ids = Pages
    /\ dependencies = [id \in {"a"} |-> {"b"}]

\* C14: the dependency set of the innermost frame after a fetch is the union
\* of the set before and the fetched ids, so an id already in it adds
\* nothing, and the frame's own id is recorded when it is fetched.
C14_SetSemanticsSelfEdges ==
    [][(IsFetch /\ stack # <<>>) =>
         /\ Top \in DOMAIN dependencies'
         /\ \A id \in Pages :
               id \in dependencies'[Top] <=>
                  (id \in Get(dependencies, Top, {}) \/ id \in hook'.ids)
         /\ hook'.ids \subseteq Get(dependencies, Top, {}) =>
               dependencies'[Top] = Get(dependencies, Top, {})
         /\ Top \in hook'.ids => Top \in dependencies'[Top]]_vars

\* C14's case: inside its own view a was fetched by get_page after get_pages
\* had returned it with the others, and its set holds a once, with b and c.
C14_Witness ==
    /\ stack = <<"a">>
    /\ hook.name = "page" /\ hook.ids = {"a"}
    /\ dependencies = [id \in {"a"} |-> Pages]

\* C15 as the specification states it: when an intercepted view ends, by
\* returning or by raising, the tracker's stack is the stack from before the
\* view was entered.
C15_Original ==
    [][Len(active') < Len(active) =>
         stack' = active[Len(active)].before]_vars

ChangedUnits ==
    {u \in Units : (StartsWithDir(u) \/ page_exists(NodeId(u))) /\ Newer(u)}

\* C17: whatever branch invalidate_cache takes, the persisted 'mtimes' after
\* it holds, for every tracked unit, the mtime of its newest file if that is
\* newer than the stored one and the stored one otherwise, and nothing else.
C17_SnapshotAlwaysPersisted ==
    [][IsStartRun =>
         /\ DOMAIN cacheMtimes' = DOMAIN cacheMtimes \cup ChangedUnits
         /\ \A u \in DOMAIN cacheMtimes' :
               cacheMtimes'[u] =
                  IF u \in ChangedUnits THEN mtimeOf[u] ELSE cacheMtimes[u]]_vars

\* C17's case: the global-clear branch, taken for newer generator code on a
\* cache with entries: the snapshot has the new mtime of dir:gen and the old
\* ones of the other units.
C17_Witness ==
    /\ pc = "render" /\ pos = 0 /\ run.cleared
    /\ run.changed = {DirGen}
    /\ run.stored # {}
    /\ DOMAIN cacheMtimes = Units
    /\ cacheMtimes[DirGen] = 2
    /\ \A u \in Units \ {DirGen} : cacheMtimes[u] = 1

\* the pages some entry of which invalidate_cache removes
Removed ==
    {id \in Pages : \E k \in DOMAIN cache :
        NodeId(cache[k].tag) = id /\ k \notin DOMAIN cache'}

\* C18 as the specification states it: a page id is in the set
\* invalidate_cache returns if and only if entries tagged with it were
\* removed by the call.
C18_Original ==
    [][IsStartRun => \A id \in Pages : id \in evicted_nodes' <=> id \in Removed]_vars

\* C18: in the page branch invalidate_cache returns the changed pages and
\* the pages whose persisted dependency set contains one, whether they had
\* entries or not, and every page it removed entries of is among them; in
\* the global-clear branch it returns the empty set and removes every entry.
C18_ReturnsEvictedTags ==
    [][IsStartRun =>
         IF DirChanged
         THEN evicted_nodes' = {} /\ cache' = EmptyDict
         ELSE /\ evicted_nodes' = ChangedPages \cup DependentsOf(ChangedPages)
              /\ Removed \subseteq evicted_nodes']_vars

\* C18's case: in the page branch, on a cache with entries, a page without
\* entries is in the returned set.
C18_Witness ==
    /\ pc = "render" /\ pos = 0 /\ ~run.cleared
    /\ run.stored # {}
    /\ evicted_nodes \ run.stored # {}

\* C19: on the first run, with no persisted snapshot, every tracked unit with
\* a file is recorded as changed with its mtime, a dir: unit among them, and
\* the global-clear branch is taken.
C19_FirstRunClears ==
    [][(IsStartRun /\ cacheMtimes = EmptyDict) =>
         /\ run'.changed = {u \in Units : mtimeOf[u] > 0}
         /\ run'.changed \cap DirKeys # {}
         /\ run'.cleared
         /\ cache' = EmptyDict
         /\ cacheMtimes' = [u \in {v \in Units : mtimeOf[v] > 0} |-> mtimeOf[u]]]_vars

\* C19's case: a first run on a content directory from which c is missing:
\* every other unit is in the snapshot, all of them new.
C19_Witness ==
    /\ pc = "render" /\ pos = 0 /\ run.cleared
    /\ run.stored = {}
    /\ run.changed = Units \ {NodeKey("c")}
    /\ DOMAIN cacheMtimes = run.changed

\* C20: with persisted edges A -> B and B -> C, no edge A -> C, and C the
\* only changed page, invalidate_cache evicts B and C and leaves every entry
\* tagged node:A in the cache, unchanged.
C20_OneLevelDeep ==
    [][(IsStartRun /\ ~DirChanged) =>
         \A A \in DOMAIN cacheDeps, B \in DOMAIN cacheDeps, C \in Pages :
            (/\ A # B /\ B # C /\ A # C
             /\ B \in cacheDeps[A]
             /\ C \in cacheDeps[B]
             /\ C \notin cacheDeps[A]
             /\ ChangedPages = {C})
            => /\ evicted_nodes' \cap {A, B, C} = {B, C}
               /\ {B, C} \cap Tagged(cache') = {}
               /\ \A k \in DOMAIN cache :
                     cache[k].tag = NodeKey(A) =>
                        k \in DOMAIN cache' /\ cache'[k] = cache[k]]_vars

\* C20's case: a read b, b read c, c changed: b and c were evicted and the
\* entries of a are still in the cache.
C20_Witness ==
    /\ pc = "render" /\ pos = 0 /\ ~run.cleared
    /\ run.changed = {NodeKey("c")}
    /\ Get(run.depsBefore, "a", {}) = {"a", "b"}
    /\ Get(run.depsBefore, "b", {}) = {"b", "c"}
    /\ evicted_nodes = {"b", "c"}
    /\ Tagged(cache) = {"a"}

(* ---------------------- the claims: keys and tags ---------------------- *)

\* C21: the endpoint is part of the key and not of the tag: every entry is
\* tagged with the page of its key alone, a call stores under its own key
\* and leaves the entries of every other key, the same page's under another
\* endpoint included, as they were, and after invalidate_cache evicted a page
\* no entry of that page is left, whatever its function and endpoint.
C21_EndpointInKeyNotTag ==
    /\ [](\A k \in DOMAIN cache : cache[k].tag = NodeKey(k.id))
    /\ [][IsCall =>
            \A k \in DOMAIN cache \ {last'.key} :
               k \in DOMAIN cache' /\ cache'[k] = cache[k]]_vars
    /\ [][IsStartRun =>
            \A k \in DOMAIN cache' : k.id \notin evicted_nodes']_vars

\* C21's case: the first page had entries and was evicted, none is left,
\* and the last page has its render_node entries for both endpoints.
C21_Witness ==
    /\ pc = "render" /\ ~run.cleared
    /\ evicted_nodes = {PageOrder[1]}
    /\ PageOrder[1] \in run.stored
    /\ \A k \in DOMAIN cache : k.id # PageOrder[1]
    /\ \A e \in Endpoints :
          Key("render_node", PageOrder[Len(PageOrder)], <<e>>) \in DOMAIN cache
    /\ memo = EmptyDict

(* ---------------------- the claims: the lifecycle ---------------------- *)

\* C22 as the specification states it: entries are removed only by
\* invalidate_cache at the start of the run and stored only while rendering,
\* and the persisted graph and the persisted snapshot are written only by
\* the write-back at the end of a run that rendered everything, so that a
\* run that raises leaves both as they were.
C22_Original ==
    /\ [][(\E k \in DOMAIN cache : k \notin DOMAIN cache') => IsStartRun]_vars
    /\ [][(\E k \in DOMAIN cache' : k \notin DOMAIN cache) => IsView]_vars
    /\ [][(cacheMtimes' # cacheMtimes \/ cacheDeps' # cacheDeps)
             => IsWriteBack]_vars

\* ------------------------------------------------------------------------
\* The internal link checker (src/gen/checks.py).
\*
\* A URL is what urlparse makes of an href or src: scheme, netloc, the path
\* split at "/", and the fragment ("" when there is none).

MaxLinks == 2

Url(scheme, host, path, fragment) ==
    [scheme |-> scheme, host |-> host, path |-> path, fragment |-> fragment]

Fragments == {"", "x"}
Targets == {PageOrder[2], PageOrder[Len(PageOrder)]}

Urls ==
    {Url("mailto", "", <<"me@host">>, ""), Url("https", "host", <<"b">>, ""),
     Url("", "", <<"nowhere", "x">>, ""), Url("", "", <<"_static", "s.css">>, "")}
    \cup {Url("", "", <<>>, "x")}
    \cup {Url("", "", <<t>>, f) : t \in Targets, f \in Fragments}
    \cup {Url("", "", <<"_file", t, "f">>, "") : t \in Targets}
    \cup {Url("", "", <<"_feed", t \o ".xml">>, f) : t \in Targets, f \in Fragments}
    \cup {Url("", "", <<"_feed", PageOrder[2], "_tags", "t.xml">>, "x")}

\* The segments of url.geturl() below the site root.
geturl(u) ==
    IF u.host # "" THEN <<u.scheme \o ":", "", u.host>> \o u.path
    ELSE IF u.scheme # "" THEN <<u.scheme \o ":" \o u.path[1]>>
    ELSE u.path

url_for_node(id) == <<id>>

NoMatch == [endpoint |-> "none", args |-> EmptyDict]
Names == Pages \cup {"mailto:me@host"}

\* The URL map of the application, matched against the segments of a path.
match_url(segs) ==
    IF Len(segs) = 0
    THEN [endpoint |-> "main.page", args |-> [id |-> "index"]]
    ELSE IF Len(segs) = 1 /\ segs[1] \in Names
    THEN [endpoint |-> "main.page", args |-> [id |-> segs[1]]]
    ELSE IF Len(segs) >= 3 /\ segs[1] = "_file"
    THEN [endpoint |-> "main.file",
          args |-> [id |-> segs[2], path |-> SubSeq(segs, 3, Len(segs))]]
    ELSE IF Len(segs) = 2 /\ segs[1] = "_feed"
            /\ \E id \in Names : segs[2] = id \o ".xml"
    THEN [endpoint |-> "feed.feed",
          args |-> [id |-> CHOOSE id \in Names : segs[2] = id \o ".xml"]]
    ELSE IF Len(segs) = 4 /\ segs[1] = "_feed" /\ segs[3] = "_tags"
    THEN [endpoint |-> "feed.tag_feed",
          args |-> [id |-> segs[2], tags |-> segs[4]]]
    ELSE IF Len(segs) >= 2 /\ segs[1] = "_static"
    THEN [endpoint |-> "static",
          args |-> [filename |-> SubSeq(segs, 2, Len(segs))]]
    ELSE NoMatch

Resolve_verbatim(id, u) == u

Resolve(id, u) ==
    IF u.host = "" /\ u.path = <<>> THEN [u EXCEPT !.path = url_for_node(id)]
    ELSE u

InternalLink(match, fragment) ==
    [endpoint |-> match.endpoint, args |-> match.args, fragment |-> fragment]

get_internal_links_any_scheme(id) ==
    LET kept == {u \in html[id].links :
                    match_url(geturl(Resolve(id, u))).endpoint # NoMatch.endpoint}
    IN  [u \in kept |->
            InternalLink(match_url(geturl(Resolve(id, u))), u.fragment)]

get_internal_links(id) ==
    LET kept == {u \in html[id].links :
                    /\ u.scheme \in {"http", "https", ""}
                    /\ match_url(geturl(Resolve(id, u))).endpoint # NoMatch.endpoint}
    IN  [u \in kept |->
            InternalLink(match_url(geturl(Resolve(id, u))), u.fragment)]

get_fragments_ids_only(id) == html[id].ids

get_fragments(id) == html[id].ids \cup html[id].names

get_page_ids(hidden, discoverable) ==
    {id \in get_page_paths :
        /\ hidden = "None" \/ html[id].hidden = (hidden = "True")
        /\ discoverable = "None" \/ html[id].discoverable = (discoverable = "True")}

\* The error, if any, the checker records for one link ("" for none).
LinkError(link) ==
    IF link.args.id \notin get_page_paths THEN "node not found"
    ELSE IF link.endpoint = "main.page"
    THEN IF link.fragment # "" /\ link.fragment \notin get_fragments(link.args.id)
         THEN "fragment not found" ELSE ""
    ELSE IF link.endpoint = "main.file" THEN ""
    ELSE IF link.endpoint = "feed.feed"
    THEN IF link.fragment # "" THEN "feed URL should not have fragment" ELSE ""
    ELSE ""

check_internal_links_listed_pages ==
    LET ids == get_page_ids("False", "True")
    IN  IF \E id \in ids : \E u \in DOMAIN get_internal_links(id) :
               "id" \notin DOMAIN get_internal_links(id)[u].args
        THEN [kind |-> "raised", value |-> EmptyDict]
        ELSE [kind |-> "links",
              value |-> [id \in ids |->
                            [u \in DOMAIN get_internal_links(id) |->
                                LinkError(get_internal_links(id)[u])]]]

check_internal_links ==
    LET ids == get_page_ids("None", "None")
    IN  IF \E id \in ids : \E u \in DOMAIN get_internal_links(id) :
               "id" \notin DOMAIN get_internal_links(id)[u].args
        THEN [kind |-> "raised", value |-> EmptyDict]
        ELSE [kind |-> "links",
              value |-> [id \in ids |->
                            [u \in DOMAIN get_internal_links(id) |->
                                LinkError(get_internal_links(id)[u])]]]

\* MetaChecker.check_all: only the pages and the URLs that have an error.
check_all ==
    LET rv == check_internal_links
        bad(id) == {u \in DOMAIN rv.value[id] : rv.value[id][u] # ""}
    IN  IF rv.kind = "raised" THEN rv
        ELSE [kind |-> "all",
              value |-> [id \in {i \in DOMAIN rv.value : bad(i) # {}} |->
                            [u \in bad(id) |-> rv.value[id][u]]]]

AddLink(u) ==
    /\ report = NoReport /\ out.step = "none"
    /\ u \notin html[PageOrder[1]].links
    /\ Cardinality(html[PageOrder[1]].links) < MaxLinks
    /\ html' = [html EXCEPT ![PageOrder[1]].links = @ \cup {u}]
    /\ UNCHANGED <<fsVars, diskVars, procVars, pc, pos, touches, last, run,
                   dirty, trackVars, report, out, unitVars, readsOf>>

AddAnchor(id, attr) ==
    /\ report = NoReport /\ out.step = "none"
    /\ html[id].ids = {} /\ html[id].names = {}
    /\ html' = [html EXCEPT ![id][attr] = {"x"}]
    /\ UNCHANGED <<fsVars, diskVars, procVars, pc, pos, touches, last, run,
                   dirty, trackVars, report, out, unitVars, readsOf>>

SetMeta(key, value) ==
    /\ report = NoReport /\ out.step = "none"
    /\ html[PageOrder[1]].hidden = FALSE
    /\ html[PageOrder[1]].discoverable = TRUE
    /\ html' = [html EXCEPT ![PageOrder[1]][key] = value]
    /\ UNCHANGED <<fsVars, diskVars, procVars, pc, pos, touches, last, run,
                   dirty, trackVars, report, out, unitVars, readsOf>>

RemovePage ==
    /\ report = NoReport /\ out.step = "none"
    /\ DeletePage(PageOrder[Len(PageOrder)])

CheckInternalLinks ==
    /\ report = NoReport
    /\ report' = check_internal_links
    /\ UNCHANGED <<fsVars, diskVars, procVars, pc, pos, touches, last, run,
                   dirty, trackVars, html, out, unitVars, readsOf>>

CheckAll ==
    /\ report = NoReport
    /\ report' = check_all
    /\ UNCHANGED <<fsVars, diskVars, procVars, pc, pos, touches, last, run,
                   dirty, trackVars, html, out, unitVars, readsOf>>

NextLinks ==
    \/ \E u \in Urls : AddLink(u)
    \/ AddAnchor(PageOrder[1], "ids")
    \/ \E attr \in {"ids", "names"} : AddAnchor(PageOrder[2], attr)
    \/ SetMeta("hidden", TRUE)
    \/ SetMeta("discoverable", FALSE)
    \/ RemovePage
    \/ CheckInternalLinks
    \/ CheckAll

SpecLinks == Init /\ [][NextLinks]_vars

\* ------------------------------------------------------------------------
\* Claims about the link checker, over SpecLinks.

Page1 == PageOrder[1]
Mailto == Url("mailto", "", <<"me@host">>, "")
Listed == report.kind = "links"

\* A path that some route of the site accepts.
Routed(path) ==
    \/ Len(path) <= 1
    \/ Len(path) >= 3 /\ path[1] = "_file"
    \/ Len(path) \in {2, 4} /\ path[1] = "_feed"
    \/ Len(path) >= 2 /\ path[1] = "_static"

Internal(u) == u.scheme \in {"", "http", "https"} /\ u.host = "" /\ Routed(u.path)

\* C23: link extraction keeps a URL exactly when its scheme is empty, http
\* or https and, without its fragment, it matches a route of the site; any
\* other link has no entry in get_internal_links and none in the report.
C23_OnlyRoutedLinksKept ==
    \A id \in get_page_paths : \A u \in html[id].links :
        /\ u \in DOMAIN get_internal_links(id) <=> Internal(u)
        /\ (report.kind \in {"links", "all"} /\ ~Internal(u))
               => \A i \in DOMAIN report.value : u \notin DOMAIN report.value[i]

C23_Witness ==
    /\ Listed
    /\ html[Page1].links = {Mailto, Url("", "", <<PageOrder[2]>>, "")}
    /\ DOMAIN report.value[Page1] = {Url("", "", <<PageOrder[2]>>, "")}

\* C24: a link to the page route has the error "node not found" when the
\* target page does not exist, else "fragment not found" when it has a
\* fragment that is neither an element id nor an a[name] value of the
\* target's HTML, else no error.
C24_PageLinkErrors ==
    Listed =>
        \A id \in DOMAIN report.value : \A u \in DOMAIN report.value[id] :
            LET link == get_internal_links(id)[u] IN
            link.endpoint = "main.page" =>
                report.value[id][u] =
                    IF link.args.id \notin get_page_paths THEN "node not found"
                    ELSE IF /\ link.fragment # ""
                            /\ link.fragment \notin html[link.args.id].ids
                            /\ link.fragment \notin html[link.args.id].names
                    THEN "fragment not found"
                    ELSE ""

C24_Witness ==
    /\ Listed
    /\ html[PageOrder[2]].ids = {} /\ html[PageOrder[2]].names = {"x"}
    /\ report.value[Page1] =
           [u \in {Url("", "", <<PageOrder[2]>>, "x"),
                   Url("", "", <<PageOrder[Len(PageOrder)]>>, "")} |->
               IF u.fragment = "x" THEN "" ELSE "node not found"]

\* C25 (as stated): a link to the file route never has an error, whether or
\* not a page with its id exists.
C25_Original ==
    Listed =>
        \A id \in DOMAIN report.value : \A u \in DOMAIN report.value[id] :
            get_internal_links(id)[u].endpoint = "main.file"
                => report.value[id][u] = ""

\* C26 (as stated): a link to the page feed or to a tag feed that has a
\* fragment always has the error "feed URL should not have fragment".
C26_Original ==
    Listed =>
        \A id \in DOMAIN report.value : \A u \in DOMAIN report.value[id] :
            (/\ get_internal_links(id)[u].endpoint \in {"feed.feed", "feed.tag_feed"}
             /\ u.fragment # "")
                => report.value[id][u] = "feed URL should not have fragment"

\* C27: a fragment-only URL in page P is checked as a link to P itself with
\* that fragment and is keyed in the result by the URL as written.
C27_FragmentOnlyIsOwnPage ==
    \A id \in get_page_paths : \A u \in html[id].links :
        (u.scheme = "" /\ u.host = "" /\ u.path = <<>>) =>
            /\ u \in DOMAIN get_internal_links(id)
            /\ get_internal_links(id)[u] =
                   [endpoint |-> "main.page", args |-> [id |-> id],
                    fragment |-> u.fragment]
            /\ Listed =>
                   /\ u \in DOMAIN report.value[id]
                   /\ report.value[id][u] =
                          IF u.fragment \in html[id].ids \cup html[id].names
                          THEN "" ELSE "fragment not found"

C27_Witness ==
    /\ Listed
    /\ html[Page1].ids = {}
    /\ html[PageOrder[2]].ids = {"x"}
    /\ report.value[Page1] =
           [u \in {Url("", "", <<>>, "x"), Url("", "", <<PageOrder[2]>>, "x")} |->
               IF u.path = <<>> THEN "fragment not found" ELSE ""]

C29_Original == report.kind # "raised"

\* ------------------------------------------------------------------------
\* The end of the freeze command (src/gen/cli.py 159-218): the pages are
\* frozen into the output directory, the checkers run, and only then are
\* .nojekyll and CNAME written and the output directory deployed.

Freeze ==
    /\ out.step = "none" /\ report = NoReport
    /\ out' = [out EXCEPT !.step = "frozen", !.frozen = get_page_paths]
    /\ UNCHANGED <<fsVars, diskVars, procVars, pc, pos, touches, last, run,
                   dirty, trackVars, html, report, unitVars, readsOf>>

\* What the command does with the result of check_all.
RaiseOnErrors_warn_only(o, rv) ==
    IF rv.kind = "raised" THEN [o EXCEPT !.step = "exited", !.exit = 1]
    ELSE [o EXCEPT !.step = "checked", !.printed = rv.value]

RaiseOnErrors(o, rv) ==
    IF rv.kind = "raised" THEN [o EXCEPT !.step = "exited", !.exit = 1]
    ELSE IF DOMAIN rv.value # {}
    THEN [o EXCEPT !.step = "exited", !.exit = 1, !.printed = rv.value]
    ELSE [o EXCEPT !.step = "checked"]

RunChecks ==
    /\ out.step = "frozen"
    /\ report' = check_all
    /\ out' = RaiseOnErrors(out, check_all)
    /\ UNCHANGED <<fsVars, diskVars, procVars, pc, pos, touches, last, run,
                   dirty, trackVars, html, unitVars, readsOf>>

WriteMarkers(cname) ==
    /\ out.step = "checked"
    /\ out' = [out EXCEPT !.step = "marked", !.nojekyll = TRUE, !.cname = cname]
    /\ UNCHANGED <<fsVars, diskVars, procVars, pc, pos, touches, last, run,
                   dirty, trackVars, html, report, unitVars, readsOf>>

DeployOptions == {"None", "True", "False"}

Deploy(is_git, deploy, isatty, confirm) ==
    /\ out.step = "marked"
    /\ out' = [out EXCEPT
                 !.step = "exited",
                 !.deployed = /\ is_git
                              /\ \/ deploy = "True"
                                 \/ deploy = "None" /\ isatty /\ confirm]
    /\ UNCHANGED <<fsVars, diskVars, procVars, pc, pos, touches, last, run,
                   dirty, trackVars, html, report, unitVars, readsOf>>

NextCli ==
    \/ \E u \in Urls : AddLink(u)
    \/ \E attr \in {"ids", "names"} : AddAnchor(PageOrder[2], attr)
    \/ SetMeta("hidden", TRUE)
    \/ RemovePage
    \/ Freeze
    \/ RunChecks
    \/ \E cname \in BOOLEAN : WriteMarkers(cname)
    \/ \E is_git, isatty, confirm \in BOOLEAN : \E deploy \in DeployOptions :
           Deploy(is_git, deploy, isatty, confirm)

SpecCli == Init /\ [][NextCli]_vars

\* C30: when check_all reports an error after freezing, the command exits
\* with a non-zero status and prints the errors; the frozen pages are in
\* the output directory, but .nojekyll and CNAME are not written and
\* nothing is deployed in that run.
C30_FailedChecksStopTheRun ==
    (report.kind = "all" /\ DOMAIN report.value # {}) =>
        /\ out.step = "exited"
        /\ out.exit # 0
        /\ out.printed = report.value
        /\ out.frozen = get_page_paths
        /\ ~out.nojekyll /\ ~out.cname /\ ~out.deployed

C30_Witness ==
    /\ out.step = "exited" /\ out.exit = 1
    /\ out.frozen = get_page_paths
    /\ DOMAIN out.printed = {Page1}
    /\ out.printed[Page1] =
           [u \in {Url("", "", <<PageOrder[2]>>, "x")} |-> "fragment not found"]

\* ------------------------------------------------------------------------
\* Markdown: table-of-contents headings and the directives
\* (src/gen/markdown.py).  md holds the state of one document being
\* rendered: the headings recorded, the block tokens parsed so far, and the
\* exception that left the render call, if any.

MaxBlocks == 3
MaxFileLines == 2

Texts == {"A", "a", "a 1", "b"}

slugify(text) ==
    CASE text = "A" -> "a"
      [] text = "a" -> "a"
      [] text = "a 1" -> "a-1"
      [] OTHER -> text

RECURSIVE SuffixSearch(_, _, _)
SuffixSearch(slug, existing_tids, counter) ==
    LET tid == slug \o "-" \o ToString(counter)
    IN  IF tid \in existing_tids
        THEN SuffixSearch(slug, existing_tids, counter + 1)
        ELSE tid

record_toc_heading_count_suffix(text, level, state) ==
    LET slug == slugify(text)
        same == {i \in DOMAIN state.toc_headings :
                    slugify(state.toc_headings[i][2]) = slug}
        tid == IF same = {} THEN slug
               ELSE slug \o "-" \o ToString(Cardinality(same))
    IN  [state EXCEPT !.toc_headings = Append(@, <<tid, text, level>>),
                      !.tokens = Append(@, [type |-> "theading", raw |-> <<>>])]

record_toc_heading(text, level, state) ==
    LET existing_tids == {state.toc_headings[i][1] : i \in DOMAIN state.toc_headings}
        slug == slugify(text)
        tid == IF slug \in existing_tids
               THEN SuffixSearch(slug, existing_tids, 1)
               ELSE slug
    IN  [state EXCEPT !.toc_headings = Append(@, <<tid, text, level>>),
                      !.tokens = Append(@, [type |-> "theading", raw |-> <<>>])]

\* One field of a part of a line number spec: empty, a number, or other text.
Field(t, v) == [t |-> t, v |-> v]
Empty == Field("empty", 0)
Junk == Field("junk", 0)
Numbers == {Field("int", n) : n \in 0..(MaxFileLines + 1)}

BadSpec == [ok |-> FALSE, items |-> <<>>]

\* One comma-separated part of the spec, split at "-".
parse_part(begend, total) ==
    IF Len(begend) = 1
    THEN IF begend[1].t = "int"
         THEN [ok |-> TRUE, items |-> <<begend[1].v - 1>>]
         ELSE BadSpec
    ELSE IF Len(begend) = 2
    THEN IF begend[1].t = "empty" /\ begend[2].t = "empty" THEN BadSpec
         ELSE IF begend[1].t = "junk" \/ begend[2].t = "junk" THEN BadSpec
         ELSE LET start == IF begend[1].t = "empty" THEN 1 ELSE begend[1].v
                  end == IF begend[2].t = "empty"
                         THEN (IF start > total THEN start ELSE total)
                         ELSE begend[2].v
              IN  IF start > end THEN BadSpec
                  ELSE [ok |-> TRUE,
                        items |-> [i \in 1..(end - start + 1) |-> start - 2 + i]]
    ELSE BadSpec

RECURSIVE parselinenos(_, _)
parselinenos(spec, total) ==
    IF spec = <<>> THEN [ok |-> TRUE, items |-> <<>>]
    ELSE LET first == parse_part(Head(spec), total)
             rest == parselinenos(Tail(spec), total)
         IN  IF first.ok /\ rest.ok
             THEN [ok |-> TRUE, items |-> first.items \o rest.items]
             ELSE BadSpec

LineSpecs ==
    {<<>>}
    \cup {<<(<<f>>)>> : f \in Numbers \cup {Junk}}
    \cup {<<(<<f, g>>)>> : f, g \in {Empty, Field("int", 1), Field("int", MaxFileLines + 1)}}
    \cup {<<(<<Field("int", 1)>>), (<<Field("int", MaxFileLines)>>)>>,
          <<(<<Empty, Empty, Empty>>)>>}

Token(type, raw) == [type |-> type, raw |-> raw]
Parsed(state, token) == [state EXCEPT !.tokens = Append(@, token)]
Raised(state, exc) == [state EXCEPT !.raised = exc]

\* LiteralInclude.parse: the file has n lines (or cannot be opened), the
\* directive has a lines option spec (<<>> when not given) and maybe text.
LiteralInclude(state, opens, n, spec, has_text) ==
    IF has_text THEN Raised(state, "AssertionError")
    ELSE IF ~opens
    THEN Parsed(state, Token("block_error", <<"could not open attachment">>))
    ELSE IF spec = <<>> THEN Parsed(state, Token("literalinclude", <<"all">>))
    ELSE LET only_lines == parselinenos(spec, n)
         IN  IF ~only_lines.ok THEN Raised(state, "ValueError")
             ELSE IF \E i \in DOMAIN only_lines.items :
                        only_lines.items[i] >= n \/ only_lines.items[i] < -n
             THEN Raised(state, "IndexError")
             ELSE Parsed(state, Token("literalinclude", <<"lines">>))

\* Snippet.parse: rendering the snippet's template raises or not.
Snippet(state, raises) ==
    IF raises
    THEN Parsed(state, Token("block_error", <<"could not render snippet">>))
    ELSE Parsed(state, Token("block_html", <<>>))

\* Subprocess.parse: the program runs and exits with returncode, or cannot
\* be started.
Subprocess(state, starts, returncode) ==
    IF ~starts THEN Raised(state, "FileNotFoundError")
    ELSE IF returncode = 0 THEN Parsed(state, Token("block_html", <<>>))
    ELSE Parsed(state, Token("block_error", <<"exited with status">>))

Rendering == md.raised = "none" /\ Len(md.tokens) < MaxBlocks

Heading(text, level) ==
    /\ Rendering
    /\ md' = record_toc_heading(text, level, md)
    /\ UNCHANGED <<fsVars, diskVars, procVars, pc, pos, touches, last, run,
                   dirty, trackVars, siteVars, page, stream, readsOf>>

ParseLiteralInclude(opens, n, spec, has_text) ==
    /\ Rendering
    /\ md' = LiteralInclude(md, opens, n, spec, has_text)
    /\ UNCHANGED <<fsVars, diskVars, procVars, pc, pos, touches, last, run,
                   dirty, trackVars, siteVars, page, stream, readsOf>>

ParseSnippet(raises) ==
    /\ Rendering
    /\ md' = Snippet(md, raises)
    /\ UNCHANGED <<fsVars, diskVars, procVars, pc, pos, touches, last, run,
                   dirty, trackVars, siteVars, page, stream, readsOf>>

ParseSubprocess(starts, returncode) ==
    /\ Rendering
    /\ md' = Subprocess(md, starts, returncode)
    /\ UNCHANGED <<fsVars, diskVars, procVars, pc, pos, touches, last, run,
                   dirty, trackVars, siteVars, page, stream, readsOf>>

NextMarkdown ==
    \/ \E text \in Texts : \E level \in {1, 2} : Heading(text, level)
    \/ \E opens, has_text \in BOOLEAN : \E n \in 0..MaxFileLines :
           \E spec \in LineSpecs : ParseLiteralInclude(opens, n, spec, has_text)
    \/ \E raises \in BOOLEAN : ParseSnippet(raises)
    \/ \E starts \in BOOLEAN : \E returncode \in {0, 1} :
           ParseSubprocess(starts, returncode)

SpecMarkdown == Init /\ [][NextMarkdown]_vars

\* C31 (as stated): no exception leaves the render call; a failing
\* directive is an error-marker block and rendering goes on.
C31_Original == md.raised = "none"

\* C39: the ids of the recorded headings are pairwise distinct, also when
\* a heading's own slug equals an id made earlier by adding a suffix.
C39_HeadingIdsDistinct ==
    \A i, j \in DOMAIN md.toc_headings :
        md.toc_headings[i][1] = md.toc_headings[j][1] => i = j

C39_Witness ==
    /\ Len(md.toc_headings) = 3
    /\ md.toc_headings[1][1] = "a"
    /\ md.toc_headings[2][1] = "a-1"
    /\ md.toc_headings[3][2] = "a 1"
    /\ md.toc_headings[3][1] = "a-1-1"

\* ------------------------------------------------------------------------
\* Page objects (src/gen/core.py 88-91, 124-191).  page holds the metadata
\* of the file of one page, what get_page returned for it, and the last
\* attribute read from the Page object with the exception it raised.

PageId == PageOrder[Len(PageOrder)]

\* A YAML value of the tags key: its type, whether Python finds it true,
\* and, for a list, the types of its items.
Value(type, truthy, items) == [type |-> type, truthy |-> truthy, items |-> items]
Absent == Value("absent", FALSE, <<>>)
TagValues ==
    {Absent, Value("none", FALSE, <<>>), Value("str", FALSE, <<>>),
     Value("str", TRUE, <<>>), Value("list", FALSE, <<>>),
     Value("list", TRUE, <<"str">>), Value("list", TRUE, <<"str", "int">>)}

Attrs == {"title", "summary", "tags", "series", "hidden", "discoverable", "content"}

get_page_validating(id) ==
    IF ~page_exists(id) THEN "FileNotFoundError"
    ELSE IF page.tags.truthy /\ page.tags.type # "list" THEN "ValueError"
    ELSE "page"

get_page(id) ==
    IF ~page_exists(id) THEN "FileNotFoundError" ELSE "page"

\* Page.tags: the exception it raises ("none" when it returns the tags).
tags(meta) ==
    LET value == IF meta.tags.truthy THEN meta.tags ELSE Value("list", FALSE, <<>>)
    IN  IF value.type # "list" THEN "ValueError"
        ELSE IF \E i \in DOMAIN value.items : value.items[i] # "str"
        THEN "ValueError"
        ELSE "none"

\* Reading an attribute of the Page object.
getattr(meta, attr) ==
    IF attr \in {"tags", "series"} THEN tags(meta) ELSE "none"

WriteTags(value) ==
    /\ page.got = "none"
    /\ page.tags = Absent /\ value # Absent
    /\ page' = [page EXCEPT !.tags = value]
    /\ UNCHANGED <<fsVars, diskVars, procVars, pc, pos, touches, last, run,
                   dirty, trackVars, siteVars, md, stream, readsOf>>

WriteHidden ==
    /\ page.got = "none"
    /\ ~page.hidden
    /\ page' = [page EXCEPT !.hidden = TRUE]
    /\ UNCHANGED <<fsVars, diskVars, procVars, pc, pos, touches, last, run,
                   dirty, trackVars, siteVars, md, stream, readsOf>>

RemovePageFile ==
    /\ page.got = "none"
    /\ DeletePage(PageId)

MakePage ==
    /\ page.got = "none"
    /\ page' = [page EXCEPT !.got = get_page(PageId)]
    /\ UNCHANGED <<fsVars, diskVars, procVars, pc, pos, touches, last, run,
                   dirty, trackVars, siteVars, md, stream, readsOf>>

Access(attr) ==
    /\ page.got = "page"
    /\ page' = [page EXCEPT !.attr = attr, !.raised = getattr(page, attr)]
    /\ UNCHANGED <<fsVars, diskVars, procVars, pc, pos, touches, last, run,
                   dirty, trackVars, siteVars, md, stream, readsOf>>

NextPage ==
    \/ \E value \in TagValues : WriteTags(value)
    \/ WriteHidden
    \/ RemovePageFile
    \/ MakePage
    \/ \E attr \in Attrs : Access(attr)

SpecPage == Init /\ [][NextPage]_vars

WrongShape(value) ==
    \/ value.type \in {"str", "int", "dict"} /\ value.truthy
    \/ value.type = "list" /\ \E i \in DOMAIN value.items : value.items[i] # "str"

\* C32: get_page succeeds for an existing page whatever the shape of its
\* tags; the validation error is raised when tags is read and only then.
C32_TagsValidatedOnAccess ==
    /\ page.got \in {"none", "page", "FileNotFoundError"}
    /\ page.got = "FileNotFoundError" => ~page_exists(PageId)
    /\ page.attr \in {"title", "summary", "hidden", "discoverable", "content"}
           => page.raised = "none"
    /\ page.attr = "tags"
           => (page.raised = "ValueError" <=> WrongShape(page.tags))

C32_Witness ==
    /\ page.got = "page"
    /\ page.tags = Value("str", TRUE, <<>>)
    /\ page.attr = "tags" /\ page.raised = "ValueError"

\* ------------------------------------------------------------------------
\* read_metadata (src/gen/core.py 194-212).  stream is an open text file:
\* its lines, how many of them have been read (pos), the position it had
\* when read_metadata was called, the lines yielded and how the call ended.

MaxStreamLines == 4

Lines == {"---", "--- ", "k: v"}

rstrip(line) == IF line = "--- " THEN "---" ELSE line

RECURSIVE Scan_no_seek(_, _, _)
Scan_no_seek(file, i, yielded) ==
    IF i > Len(file.lines)
    THEN [file EXCEPT !.pos = Len(file.lines), !.yielded = yielded,
                      !.status = "ValueError"]
    ELSE IF rstrip(file.lines[i]) = "---"
    THEN [file EXCEPT !.pos = i, !.yielded = yielded, !.status = "returned"]
    ELSE Scan_no_seek(file, i + 1, Append(yielded, file.lines[i]))

\* The loop over the lines after the opening marker, from line i on.
RECURSIVE Scan(_, _, _)
Scan(file, i, yielded) ==
    IF i > Len(file.lines)
    THEN [file EXCEPT !.pos = file.entry, !.yielded = yielded,
                      !.status = "ValueError"]
    ELSE IF rstrip(file.lines[i]) = "---"
    THEN [file EXCEPT !.pos = i, !.yielded = yielded, !.status = "returned"]
    ELSE Scan(file, i + 1, Append(yielded, file.lines[i]))

read_metadata(file) ==
    LET f == [file EXCEPT !.entry = file.pos]
    IN  IF f.pos = Len(f.lines) THEN [f EXCEPT !.status = "returned"]
        ELSE IF rstrip(f.lines[f.pos + 1]) # "---"
        THEN [f EXCEPT !.status = "returned"]
        ELSE Scan(f, f.pos + 2, <<>>)

WriteLine(line) ==
    /\ stream.status = "unread" /\ stream.pos = 0
    /\ Len(stream.lines) < MaxStreamLines
    /\ stream' = [stream EXCEPT !.lines = Append(@, line)]
    /\ UNCHANGED <<fsVars, diskVars, procVars, pc, pos, touches, last, run,
                   dirty, trackVars, siteVars, md, page, readsOf>>

ReadLine ==
    /\ stream.status = "unread"
    /\ stream.pos < Len(stream.lines)
    /\ stream' = [stream EXCEPT !.pos = @ + 1]
    /\ UNCHANGED <<fsVars, diskVars, procVars, pc, pos, touches, last, run,
                   dirty, trackVars, siteVars, md, page, readsOf>>

ReadMetadata ==
    /\ stream.status = "unread"
    /\ stream' = read_metadata(stream)
    /\ UNCHANGED <<fsVars, diskVars, procVars, pc, pos, touches, last, run,
                   dirty, trackVars, siteVars, md, page, readsOf>>

NextStream ==
    \/ \E line \in Lines : WriteLine(line)
    \/ ReadLine
    \/ ReadMetadata

SpecStream == Init /\ [][NextStream]_vars

IsMarker(line) == line \in {"---", "--- "}
Closing(file) ==
    {i \in (file.entry + 2)..Len(file.lines) : IsMarker(file.lines[i])}

\* C33: read_metadata yields nothing and keeps the position when the first
\* line is not a marker; yields the lines between the markers and stops
\* just after the closing one when there is one; raises ValueError and
\* restores the position when the closing marker is missing.
C33_StreamLeftAtBody ==
    stream.status # "unread" =>
        IF stream.entry = Len(stream.lines) \/ ~IsMarker(stream.lines[stream.entry + 1])
        THEN /\ stream.status = "returned"
             /\ stream.yielded = <<>>
             /\ stream.pos = stream.entry
        ELSE IF Closing(stream) # {}
        THEN LET close == CHOOSE i \in Closing(stream) :
                              \A j \in Closing(stream) : i <= j
             IN  /\ stream.status = "returned"
                 /\ stream.yielded = SubSeq(stream.lines, stream.entry + 2, close - 1)
                 /\ stream.pos = close
        ELSE /\ stream.status = "ValueError"
             /\ stream.pos = stream.entry

C33_Witness ==
    /\ stream.status = "ValueError"
    /\ stream.lines = <<"k: v", "---", "k: v">>
    /\ stream.entry = 1 /\ stream.pos = 1

\* ------------------------------------------------------------------------
\* Claims about the persisted state across runs.

\* C36: the global-clear branch removes the persisted graph with the
\* entries and returns the empty set, the snapshot written after it keeps
\* every key it had, and the write-back of that run persists exactly the
\* edges the tracker observed in the run.
C36_ClearRemovesGraph ==
    /\ [][(IsStartRun /\ run'.cleared) =>
            /\ cache' = EmptyDict
            /\ cacheDeps' = EmptyDict
            /\ evicted_nodes' = {}
            /\ DOMAIN cacheMtimes \subseteq DOMAIN cacheMtimes']_vars
    /\ [][(IsWriteBack /\ run.cleared) => cacheDeps' = dependencies]_vars

C36_Witness ==
    /\ pc = "check" /\ run.cleared
    /\ run.stored = Pages
    /\ run.changed = {DirTemplates}
    /\ DOMAIN cacheMtimes = Units
    /\ cacheDeps = dependencies
    /\ DOMAIN cacheDeps = Pages
    /\ \A id \in Pages : cacheDeps[id] = {id}

\* The pages in the snapshot whose file is gone.
Gone == {id \in Pages : ~page_exists(id) /\ NodeKey(id) \in DOMAIN cacheMtimes}

\* C38: a page whose file was deleted is not recorded as changed and its
\* snapshot key stays; when nothing else changed invalidate_cache removes
\* no entry and no edge, and the write-back keeps the entries of the graph
\* that are not evicted, the deleted page's own among them.
C38_DeletionNotDetected ==
    /\ [][IsStartRun =>
            /\ \A id \in Gone :
                  /\ NodeKey(id) \notin run'.changed
                  /\ NodeKey(id) \in DOMAIN cacheMtimes'
                  /\ cacheMtimes'[NodeKey(id)] = cacheMtimes[NodeKey(id)]
            /\ (\A u \in CheckedKeys : ~Newer(u)) =>
                  /\ cache' = cache
                  /\ cacheDeps' = cacheDeps
                  /\ evicted_nodes' = {}]_vars
    /\ [][IsWriteBack =>
            \A y \in DOMAIN cacheDeps \ evicted_nodes :
                y \in DOMAIN cacheDeps' /\ cacheDeps'[y] = cacheDeps[y]]_vars

C38_Witness ==
    LET c == PageOrder[Len(PageOrder)]
    IN  /\ pc = "check" /\ ~run.cleared /\ run.changed = {}
        /\ Gone = {c}
        /\ c \in Tagged(cache)
        /\ c \in DOMAIN cacheDeps
        /\ \E y \in DOMAIN cacheDeps : y # c /\ c \in cacheDeps[y]

\* A file of unit u gets mtime t between runs, any number of times.
Retouch(u, t) ==
    /\ pc = "idle"
    /\ t # mtimeOf[u]
    /\ mtimeOf' = [mtimeOf EXCEPT ![u] = t]
    /\ dirty' = TRUE
    /\ UNCHANGED <<diskVars, procVars, pc, pos, touches, last, run, trackVars,
                   siteVars, unitVars, readsOf>>

Retouched == {NodeKey(PageOrder[1]), DirTemplates}

NextTouch ==
    \/ \E u \in Retouched : \E t \in 1..MaxTime : Retouch(u, t)
    \/ StartRun
    \/ View({})
    \/ WriteBack
    \/ EndRun

SpecTouch == Init /\ [][NextTouch]_vars

\* C37: the persisted snapshot never loses a key and no value in it ever
\* decreases; a unit is recorded as changed exactly when a file of it is
\* strictly newer than the stored value, so an mtime that moved backwards
\* or stayed equal evicts nothing.
C37_SnapshotMonotone ==
    /\ [][\A k \in DOMAIN cacheMtimes :
            k \in DOMAIN cacheMtimes' /\ cacheMtimes'[k] >= cacheMtimes[k]]_vars
    /\ [][IsStartRun =>
            /\ run'.changed =
                  {k \in CheckedKeys : mtimeOf[k] > Get(cacheMtimes, k, 0)}
            /\ (\A k \in CheckedKeys : mtimeOf[k] <= Get(cacheMtimes, k, 0)) =>
                  cache' = cache /\ evicted_nodes' = {}]_vars

C37_Witness ==
    /\ pc = "render" /\ pos = 0
    /\ run.changed = {} /\ ~run.cleared
    /\ mtimeOf[NodeKey(PageOrder[1])] < cacheMtimes[NodeKey(PageOrder[1])]
    /\ mtimeOf[DirTemplates] = cacheMtimes[DirTemplates]
    /\ Tagged(cache) = Pages

\* ------------------------------------------------------------------------
\* A cached freeze run with its check phase (src/gen/cli.py 159-192): the
\* freezer requests the pages its url generator lists, the graph is written
\* back, and then the checkers render every page.  readsOf remembers, for
\* an entry of the store, the pages read while it was computed.

FreezePages_hidden_too == get_page_ids("None", "None")

\* make_freezer.page: get_page_ids(discoverable=None)
FreezePages == get_page_ids("False", "None")

\* check_internal_links: get_page_ids(hidden=None, discoverable=None)
CheckPages == get_page_ids("None", "None")

FreezeRemaining ==
    {i \in (pos + 1)..Len(PageOrder) : PageOrder[i] \in FreezePages}

CheckRemaining ==
    {i \in 1..Len(PageOrder) :
        i > pos - Len(PageOrder) /\ PageOrder[i] \in CheckPages}

\* readsOf after a view of page id whose markdown fetched reads.
Recorded(id, reads) ==
    LET k == Key("render_node", id, <<"main">>)
        w1 == wrapper(memo, cache, Key("get_page_metadata", id, <<>>))
        w2 == wrapper(w1.memo, w1.cache, k)
    IN  IF w2.how = "computed" THEN Put(readsOf, k, {id} \cup reads)
        ELSE readsOf

\* A page is marked hidden before the first run.
HidePage ==
    /\ pc = "idle" /\ cacheMtimes = EmptyDict
    /\ SetMeta("hidden", TRUE)

FreezeView(reads) ==
    /\ pc = "render"
    /\ FreezeRemaining # {}
    /\ LET i == CHOOSE j \in FreezeRemaining : \A l \in FreezeRemaining : j <= l
       IN  /\ ViewOf(PageOrder[i], reads)
           /\ readsOf' = Recorded(PageOrder[i], reads)
           /\ pos' = i
    /\ UNCHANGED <<mtimeOf, cacheMtimes, cacheDeps, pc, touches, evicted_nodes,
                   run, dirty, trackVars, siteVars, unitVars>>

WriteBackFrozen ==
    /\ FreezeRemaining = {}
    /\ pos = Len(PageOrder)
    /\ WriteBack

\* check_all renders the next page through the page view, after the
\* write-back.
CheckView(reads) ==
    /\ pc = "check"
    /\ CheckRemaining # {}
    /\ LET i == CHOOSE j \in CheckRemaining : \A l \in CheckRemaining : j <= l
       IN  /\ ViewOf(PageOrder[i], reads)
           /\ readsOf' = Recorded(PageOrder[i], reads)
           /\ pos' = Len(PageOrder) + i
    /\ UNCHANGED <<mtimeOf, cacheMtimes, cacheDeps, pc, touches, evicted_nodes,
                   run, dirty, trackVars, siteVars, unitVars>>

\* The command ends once every page was checked.
EndChecked == CheckRemaining = {} /\ EndRun

NextCheck ==
    \/ HidePage
    \/ \E id \in {PageOrder[1], PageOrder[2]} : \E t \in 1..MaxTime :
           Touch(NodeKey(id), t)
    \/ StartRun
    \/ \E reads \in SUBSET Pages : FreezeView(reads)
    \/ WriteBackFrozen
    \/ \E reads \in SUBSET Pages : CheckView(reads)
    \/ EndChecked

SpecCheck == Init /\ [][NextCheck]_vars

IsCheckView == pc = "check" /\ pc' = "check"
IsEndChecked == pc = "check" /\ pc' = "idle"

\* C34 (as stated): at the end of a successful run every page read while a
\* persisted entry tagged node:A was computed is in A's persisted
\* dependency set.
C34_Original ==
    [][IsEndChecked =>
         \A k \in DOMAIN cache :
             Get(readsOf, k, {}) \ {k.id} \subseteq Get(cacheDeps, k.id, {})]_vars

\* C35: the edges the tracker observes in the check phase are not
\* persisted; a hidden page, rendered only by the checkers, ends the run
\* with entries in the store and in the tracker's graph but with no entry
\* in the persisted graph.
C35_CheckPhaseEdgesLost ==
    /\ [][IsCheckView => cacheDeps' = cacheDeps]_vars
    /\ [][IsEndChecked =>
            \A id \in get_page_paths :
                html[id].hidden =>
                    /\ id \in Tagged(cache)
                    /\ id \in DOMAIN dependencies
                    /\ id \notin DOMAIN cacheDeps]_vars

C35_Witness ==
    /\ pc = "check" /\ CheckRemaining = {}
    /\ ~run.cleared
    /\ evicted_nodes = {Page1}
    /\ html[Page1].hidden
    /\ Page1 \in Tagged(cache)
    /\ Page1 \in DOMAIN dependencies /\ PageOrder[2] \in dependencies[Page1]
    /\ Page1 \notin DOMAIN cacheDeps

============================================================================
